---- MODULE Spec2Model ----
(***************************************************************************)
(* Model of the TradingView -> Binance Futures webhook relay (main.py).    *)
(*                                                                         *)
(* The relay is an asyncio application: every request handler is a         *)
(* coroutine that runs atomically between two `await`s on the single event *)
(* loop thread.  The only awaits of webhook() that can suspend after the   *)
(* body has been read are the exchange REST calls, so the model has one    *)
(* action for the synchronous prefix of webhook() (body parsed ... first   *)
(* exchange call issued) and one action per exchange call that returns.    *)
(*                                                                         *)
(* Quantities and positions are counted in units of 0.001 (the sizer       *)
(* rounds to three decimals and its floor is 0.001); prices in USDT.       *)
(***************************************************************************)
EXTENDS Integers, Sequences, FiniteSets, TLC

\* ---------------------------------------------------------------- bounds
MaxPos == 2          \* |net position| the exchange lets the account reach

\* ------------------------------------------------------ program constants
ORDER_USDT == 100    \* default notional per order
LEVERAGE   == 1      \* default leverage
MIN_QTY    == 1      \* min_qty = 0.001, in units of 0.001

\* The coroutines that may be live at once; a finished one is reused by the
\* next delivery, so a behaviour holds any number of deliveries.
Reqs == {1, 2}

\* ------------------------------------------------------------- strings
\* Ticker strings are sequences of one-character strings so that split,
\* upper, strip and endswith are computed, not assumed.
Absent == "<absent>"                       \* key missing from the payload
TV_BTCUSD == <<"b","i","n","a","n","c","e",":","b","t","c","u","s","d">>
TV_BLANK  == <<" ">>
TV_EMPTY  == << >>
BTCUSDT   == <<"B","T","C","U","S","D","T">>

UpperChar(c) ==
  CASE c = "a" -> "A" [] c = "b" -> "B" [] c = "c" -> "C" [] c = "d" -> "D"
    [] c = "e" -> "E" [] c = "i" -> "I" [] c = "n" -> "N" [] c = "s" -> "S"
    [] c = "t" -> "T" [] c = "u" -> "U" [] OTHER -> c

Upper(s) == [i \in 1..Len(s) |-> UpperChar(s[i])]

RECURSIVE LStrip(_)
LStrip(s) == IF s # << >> /\ Head(s) = " " THEN LStrip(Tail(s)) ELSE s

RECURSIVE RStrip(_)
RStrip(s) == IF s # << >> /\ s[Len(s)] = " " THEN RStrip(SubSeq(s, 1, Len(s) - 1)) ELSE s

Strip(s) == RStrip(LStrip(s))

\* s.split(":")[-1]
AfterLastColon(s) ==
  LET colons == {i \in 1..Len(s) : s[i] = ":"}
      last   == IF colons = {} THEN 0
                ELSE CHOOSE i \in colons : \A j \in colons : j <= i
  IN  SubSeq(s, last + 1, Len(s))

EndsWith(s, suf) ==
  /\ Len(s) >= Len(suf)
  /\ SubSeq(s, Len(s) - Len(suf) + 1, Len(s)) = suf

\* tv_to_binance_symbol without the strip
tv_to_binance_symbol_nostrip(tv_symbol) ==
  IF tv_symbol = << >> THEN << >>
  ELSE LET sym == Upper(AfterLastColon(tv_symbol))
       IN  IF EndsWith(sym, <<"U","S","D">>) /\ ~EndsWith(sym, <<"U","S","D","T">>)
           THEN sym \o <<"T">>
           ELSE sym

tv_to_binance_symbol(tv_symbol) ==
  IF tv_symbol = << >> THEN << >>
  ELSE LET sym == Strip(Upper(AfterLastColon(tv_symbol)))
       IN  IF EndsWith(sym, <<"U","S","D">>) /\ ~EndsWith(sym, <<"U","S","D","T">>)
           THEN sym \o <<"T">>
           ELSE sym

\* str(payload.get("id")): a missing id becomes the string "None"
PyStr(v) == IF v = Absent THEN "None" ELSE v

\* (payload.get("action") or "").lower().strip()
LowerStrip(a) ==
  CASE a = Absent    -> ""
    [] a = "LONG"    -> "long"
    [] a = " Close " -> "close"
    [] OTHER         -> a

\* action_map with a default for the verbs it does not know
action_map_default(action_raw) ==
  CASE action_raw = "buy"        -> "buy"
    [] action_raw = "sell"       -> "sell"
    [] action_raw = "close"      -> "close"
    [] action_raw = "long"       -> "buy"
    [] action_raw = "short"      -> "short"
    [] action_raw = "exit_long"  -> "close"
    [] action_raw = "exit_short" -> "close"
    [] action_raw = "hb"         -> "ignore"
    [] action_raw = "test"       -> "ignore"
    [] OTHER                     -> "buy"

\* action_map with "long" taken for the sell side
action_map_longshort(action_raw) ==
  CASE action_raw = "buy"        -> "buy"
    [] action_raw = "sell"       -> "sell"
    [] action_raw = "close"      -> "close"
    [] action_raw = "long"       -> "short"
    [] action_raw = "short"      -> "short"
    [] action_raw = "exit_long"  -> "close"
    [] action_raw = "exit_short" -> "close"
    [] action_raw = "hb"         -> "ignore"
    [] action_raw = "test"       -> "ignore"
    [] OTHER                     -> Absent

\* action_map.get(action_raw, None); None is modelled as Absent
action_map(action_raw) ==
  CASE action_raw = "buy"        -> "buy"
    [] action_raw = "sell"       -> "sell"
    [] action_raw = "close"      -> "close"
    [] action_raw = "long"       -> "buy"
    [] action_raw = "short"      -> "short"
    [] action_raw = "exit_long"  -> "close"
    [] action_raw = "exit_short" -> "close"
    [] action_raw = "hb"         -> "ignore"
    [] action_raw = "test"       -> "ignore"
    [] OTHER                     -> Absent

\* ---------------------------------------------------------------- sizer
Min(a, b) == IF a <= b THEN a ELSE b
Max(a, b) == IF a >= b THEN a ELSE b
Abs(a)    == IF a < 0 THEN -a ELSE a

\* round(n/d, 3) in units of 0.001, ties to even
Round3(n, d) ==
  LET q == (n * 1000) \div d
      r == (n * 1000) % d
  IN  IF 2 * r > d THEN q + 1
      ELSE IF 2 * r < d THEN q
      ELSE q + (q % 2)

\* price_f = float(price), None when that fails; the payload's price is a
\* sequence: << >> when absent or unparsable, <<p>> when it parses to p.
\* The sizer is called with (price_f or 0.0).
PriceOrZero(price) == IF price = << >> THEN 0 ELSE price[1]

_calc_qty_from_usdt(price, usdt, leverage, min_qty) ==
  IF price <= 0 THEN min_qty
  ELSE Max(min_qty, Round3(usdt * leverage, price))

\* ------------------------------------------------------------ the router
\* One invocation of handle_signal after its position query has returned
\* pos_qty: the order it places, or the skipped result it returns.
\* A skipped result is {"skipped": True, "reason": reason}; the reason of an
\* unknown verb is the pair (text, verb) for f"unknown action {action}".
Order(side, qty, reduce_only) ==
  [kind |-> "order", side |-> side, qty |-> qty, reduce_only |-> reduce_only,
   reason |-> << >>]

Skip(reason) ==
  [kind |-> "skip", side |-> "", qty |-> 0, reduce_only |-> FALSE,
   reason |-> reason]

\* handle_signal with the closing legs placed whatever the position is
handle_signal_unconditional(action, pos_qty, qty, allow_short) ==
  CASE action = "BUY"   -> Order("BUY", qty, FALSE)
    [] action = "SELL"  ->
         IF pos_qty > 0 \/ ~allow_short THEN Order("SELL", Min(qty, Abs(pos_qty)), TRUE)
         ELSE Order("SELL", qty, FALSE)
    [] action = "SHORT" -> Order("SELL", qty, FALSE)
    [] action = "COVER" -> Order("BUY", Min(qty, Abs(pos_qty)), TRUE)
    [] OTHER            -> Skip(<<"unknown action", action>>)

\* handle_signal without the clamp of the closing quantity to the position
handle_signal_noclamp(action, pos_qty, qty, allow_short) ==
  CASE action = "BUY"   -> Order("BUY", qty, FALSE)
    [] action = "SELL"  ->
         IF pos_qty > 0 THEN Order("SELL", qty, TRUE)
         ELSE IF allow_short THEN Order("SELL", qty, FALSE)
         ELSE Skip(<<"no long to close; short disabled">>)
    [] action = "SHORT" -> Order("SELL", qty, FALSE)
    [] action = "COVER" ->
         IF pos_qty < 0 THEN Order("BUY", qty, TRUE)
         ELSE Skip(<<"no short to close">>)
    [] OTHER            -> Skip(<<"unknown action", action>>)

\* handle_signal with a SELL that opens a short whenever there is no long
handle_signal_shortonsell(action, pos_qty, qty, allow_short) ==
  CASE action = "BUY"   -> Order("BUY", qty, FALSE)
    [] action = "SELL"  ->
         IF pos_qty > 0 THEN Order("SELL", Min(qty, pos_qty), TRUE)
         ELSE Order("SELL", qty, FALSE)
    [] action = "SHORT" -> Order("SELL", qty, FALSE)
    [] action = "COVER" ->
         IF pos_qty < 0 THEN Order("BUY", Min(qty, Abs(pos_qty)), TRUE)
         ELSE Skip(<<"no short to close">>)
    [] OTHER            -> Skip(<<"unknown action", action>>)

\* handle_signal with a COVER that tests the position for a long
handle_signal_coversign(action, pos_qty, qty, allow_short) ==
  CASE action = "BUY"   -> Order("BUY", qty, FALSE)
    [] action = "SELL"  ->
         IF pos_qty > 0 THEN Order("SELL", Min(qty, pos_qty), TRUE)
         ELSE IF allow_short THEN Order("SELL", qty, FALSE)
         ELSE Skip(<<"no long to close; short disabled">>)
    [] action = "SHORT" -> Order("SELL", qty, FALSE)
    [] action = "COVER" ->
         IF pos_qty > 0 THEN Order("BUY", Min(qty, Abs(pos_qty)), TRUE)
         ELSE Skip(<<"no short to close">>)
    [] OTHER            -> Skip(<<"unknown action", action>>)

handle_signal(action, pos_qty, qty, allow_short) ==
  CASE action = "BUY"   -> Order("BUY", qty, FALSE)
    [] action = "SELL"  ->
         IF pos_qty > 0 THEN Order("SELL", Min(qty, pos_qty), TRUE)
         ELSE IF allow_short THEN Order("SELL", qty, FALSE)
         ELSE Skip(<<"no long to close; short disabled">>)
    [] action = "SHORT" -> Order("SELL", qty, FALSE)
    [] action = "COVER" ->
         IF pos_qty < 0 THEN Order("BUY", Min(qty, Abs(pos_qty)), TRUE)
         ELSE Skip(<<"no short to close">>)
    [] OTHER            -> Skip(<<"unknown action", action>>)

\* ---------------------------------------------------------- the exchange
\* Net position after the exchange fills a market order (one-way mode).  A
\* reduce-only order only shrinks a position of the opposite side.
ExchangeFill(pos, side, qty, reduce_only) ==
  IF reduce_only
  THEN IF side = "SELL" THEN pos - Min(qty, Max(pos, 0))
                        ELSE pos + Min(qty, Max(0 - pos, 0))
  ELSE IF side = "SELL" THEN pos - qty ELSE pos + qty

\* The exchange rejects (with an error body) a reduce-only order that has
\* nothing to reduce, and an order that exceeds the account's limit.
ExchangeAccepts(pos, side, qty, reduce_only) ==
  /\ reduce_only => IF side = "SELL" THEN pos > 0 ELSE pos < 0
  /\ Abs(ExchangeFill(pos, side, qty, reduce_only)) <= MaxPos

\* An answer to the position-risk query.  sent = FALSE is an HTTP call that
\* threw (timeout, connection error); json_ok = FALSE a body r.json() cannot
\* parse; otherwise the parsed data is one object (shape "object") or a
\* list of items.  An item that is a JSON object carries the symbol and the
\* positionAmt it holds: kind "num" for a numeric string, "missing" for no
\* such key, "junk" for a value float() rejects.
Amt(kind, n) == [kind |-> kind, n |-> n]
Item(is_obj, symbol, amt) == [is_obj |-> is_obj, symbol |-> symbol, amt |-> amt]
NoItem == Item(FALSE, << >>, Amt("missing", 0))
ETHUSDT == <<"E","T","H","U","S","D","T">>

PositionAnswer(sent, json_ok, shape, obj, items) ==
  [sent |-> sent, json_ok |-> json_ok, shape |-> shape, obj |-> obj, items |-> items]

\* the answers the exchange may give while the net position of BTCUSDT is pos
PositionAnswers(pos) ==
  LET entry == Item(TRUE, BTCUSDT, Amt("num", pos))
      other == Item(TRUE, ETHUSDT, Amt("num", 1))
  IN  { PositionAnswer(FALSE, FALSE, "list", NoItem, << >>),
        PositionAnswer(TRUE, FALSE, "list", NoItem, << >>),
        PositionAnswer(TRUE, TRUE, "list", NoItem, <<entry>>),
        PositionAnswer(TRUE, TRUE, "list", NoItem, <<other, entry>>),
        PositionAnswer(TRUE, TRUE, "object", entry, << >>),
        PositionAnswer(TRUE, TRUE, "list", NoItem, << >>),
        PositionAnswer(TRUE, TRUE, "list", NoItem, <<other>>),
        PositionAnswer(TRUE, TRUE, "object", Item(TRUE, << >>, Amt("missing", 0)), << >>),
        PositionAnswer(TRUE, TRUE, "list", NoItem,
                       <<Item(TRUE, BTCUSDT, Amt("missing", 0))>>),
        PositionAnswer(TRUE, TRUE, "list", NoItem,
                       <<Item(TRUE, BTCUSDT, Amt("junk", 0))>>),
        PositionAnswer(TRUE, TRUE, "list", NoItem, <<NoItem, entry>>) }

\* the loop of lines 78-84: the first item decides that is not an object
\* (it.get throws) or that carries the symbol (its amount, 0.0 when float()
\* throws); 0.0 when no item does.  res is "ok" for a parsed amount,
\* "malformed" for the 0.0 default, "unparsed" for an exception.
RECURSIVE ScanItems(_, _)
ScanItems(items, symbol) ==
  IF items = << >> THEN [res |-> "malformed", val |-> 0]
  ELSE LET it == Head(items)
       IN  IF ~it.is_obj THEN [res |-> "unparsed", val |-> 0]
           ELSE IF it.symbol = symbol
           THEN IF it.amt.kind = "num" THEN [res |-> "ok", val |-> it.amt.n]
                ELSE [res |-> "malformed", val |-> 0]
           ELSE ScanItems(Tail(items), symbol)

\* _binance_futures_get_position_qty on one answer (lines 74-84)
_binance_futures_get_position_qty(answer, symbol) ==
  IF ~answer.sent THEN [res |-> "raised", val |-> 0]
  ELSE IF ~answer.json_ok THEN [res |-> "unparsed", val |-> 0]
  ELSE LET data == IF answer.shape = "object" THEN <<answer.obj>> ELSE answer.items
       IN  ScanItems(data, symbol)

\* ----------------------------------------------------------------- state
VARIABLES
  APP_PASSPHRASE,      \* env PASS_PHRASE
  BINANCE_API_KEY,     \* env BINANCE_API_KEY ("" when unset)
  BINANCE_API_SECRET,  \* env BINANCE_API_SECRET ("" when unset)
  _ids_processados,    \* the process-lifetime set of alert ids
  position,            \* net position of BTCUSDT on the exchange
  req                  \* the webhook coroutines, one per delivery

vars == <<APP_PASSPHRASE, BINANCE_API_KEY, BINANCE_API_SECRET,
          _ids_processados, position, req>>

\* --------------------------------------------------------------- inputs
Passphrases == {"pw", "bad", ""}
AlertIds    == {"a1", Absent}
RawActions  == {"buy", "LONG", "sell", "short", " Close ", "hb", "bogus"}
TVSymbols   == {TV_EMPTY, TV_BLANK, TV_BTCUSD}
Prices      == {<< >>, <<60000>>}

Payloads == [passphrase : Passphrases, id : AlertIds, action : RawActions,
             symbol : TVSymbols, price : Prices]

\* A request body: text that json.loads rejects, or a JSON object
Bodies == {[json_ok |-> FALSE,
            payload |-> [passphrase |-> Absent, id |-> Absent, action |-> "bogus",
                         symbol |-> TV_EMPTY, price |-> << >>]]}
          \cup {[json_ok |-> TRUE, payload |-> p] : p \in Payloads}

\* ------------------------------------------------------- coroutine state
\* One exchange call of a request: res is "pending" while the call is in
\* flight, then "ok", "malformed" (position query answered without a usable
\* amount), "rejected" (the exchange answered with an error body) or "raised"
\* (the HTTP call or r.json() threw); val is the pos_qty a position query
\* returned.
Call(op, symbol, side, qty, reduce_only) ==
  [op |-> op, symbol |-> symbol, side |-> side, qty |-> qty,
   reduce_only |-> reduce_only, res |-> "pending", val |-> 0]

IdleReq ==
  [pc |-> "idle", resp |-> "", alert_id |-> "", action_raw |-> "",
   action |-> "", symbol |-> << >>, price |-> << >>, qty |-> 0, verb |-> "",
   allow_short |-> FALSE, leg |-> 0, calls |-> << >>, results |-> << >>]

Finish(rec, resp) == [rec EXCEPT !.pc = "done", !.resp = resp]

SetLast(calls, res, val) ==
  [calls EXCEPT ![Len(calls)] = [@ EXCEPT !.res = res, !.val = val]]

\* Dedup guard (lines 227-230)
HasProcessed_never(ids, alert_id) == FALSE
HasProcessed_idless(ids, alert_id) == alert_id # "None" /\ alert_id \in ids
HasProcessed(ids, alert_id) == alert_id \in ids

MarkProcessed_forget(ids, alert_id) == ids
MarkProcessed(ids, alert_id) == ids \cup {alert_id}

\* An exception of an exchange call that nothing catches: it leaves
\* handle_signal and webhook, and the framework answers 500.
Unhandled(rec) == Finish([rec EXCEPT !.calls = SetLast(@, "raised", 0)], "500")

\* handle_signal up to its first await: normalise, then issue the position
\* query (lines 163-167).
StartRouter(rec, leg, verb, allow_short) ==
  [rec EXCEPT !.pc = "getpos", !.leg = leg, !.verb = verb,
              !.allow_short = allow_short,
              !.calls = Append(@, Call("position", tv_to_binance_symbol(rec.symbol),
                                       "", 0, FALSE))]

\* webhook lines 291-301 and 319-321: route the mapped action to the router
Route(rec) ==
  CASE rec.action = "buy"   -> StartRouter(rec, 1, "BUY", FALSE)
    [] rec.action = "sell"  -> StartRouter(rec, 1, "SELL", FALSE)
    [] rec.action = "short" -> StartRouter(rec, 1, "SHORT", TRUE)
    [] rec.action = "close" -> StartRouter(rec, 1, "SELL", FALSE)
    [] OTHER                -> Finish(rec, "400 acao desconhecida")

\* webhook after one handle_signal call has returned `result`
AfterRouter(rec, result) ==
  LET rec1 == [rec EXCEPT !.results = Append(@, result)]
  IN  IF rec1.action = "close"
      THEN IF rec1.leg = 1
           THEN StartRouter(rec1, 2, "COVER", FALSE)
           ELSE [rec1 EXCEPT !.pc = "income",
                             !.calls = Append(@, Call("income",
                                 tv_to_binance_symbol(rec1.symbol), "", 0, FALSE))]
      ELSE Finish(rec1, "ok")

\* The value handle_signal returns: a skipped result, or the exchange's
\* answer to the order ("ok" or "rejected", an error body).
SkippedResult(reason) == [skipped |-> TRUE, reason |-> reason, response |-> ""]
OrderResult(response) == [skipped |-> FALSE, reason |-> << >>, response |-> response]

\* webhook testing only the API key before the execution step
webhook_keyonly(body, ids) ==
  LET payload    == body.payload
      alert_id   == PyStr(payload.id)
      action_raw == LowerStrip(payload.action)
      action     == action_map(action_raw)
      symbol_b   == tv_to_binance_symbol(payload.symbol)
      rec0       == [IdleReq EXCEPT !.alert_id = alert_id]
      rec        == [rec0 EXCEPT !.action_raw = action_raw, !.action = action,
                                 !.symbol = payload.symbol, !.price = payload.price]
  IN  IF ~body.json_ok
      THEN [rec |-> Finish(IdleReq, "400 JSON invalido"), ids |-> ids]
      ELSE IF APP_PASSPHRASE = "" \/ payload.passphrase # APP_PASSPHRASE
      THEN [rec |-> Finish(IdleReq, "401 Passphrase incorreta"), ids |-> ids]
      ELSE IF HasProcessed(ids, alert_id)
      THEN [rec |-> Finish(rec0, "duplicado_ignorado"), ids |-> ids]
      ELSE [ids |-> MarkProcessed(ids, alert_id),
            rec |->
              IF action = Absent THEN Finish(rec, "400 acao desconhecida")
              ELSE IF action = "ignore" THEN Finish(rec, "ok ignorado")
              ELSE IF BINANCE_API_KEY = ""
                   THEN Finish(rec, "ok")
              ELSE IF symbol_b = << >> THEN Finish(rec, "ok")
              ELSE [rec EXCEPT !.pc = "leverage",
                               !.calls = <<Call("leverage", symbol_b, "", 0, FALSE)>>]]

\* webhook without the test for an unset PASS_PHRASE
webhook_noemptycheck(body, ids) ==
  LET payload    == body.payload
      alert_id   == PyStr(payload.id)
      action_raw == LowerStrip(payload.action)
      action     == action_map(action_raw)
      symbol_b   == tv_to_binance_symbol(payload.symbol)
      rec0       == [IdleReq EXCEPT !.alert_id = alert_id]
      rec        == [rec0 EXCEPT !.action_raw = action_raw, !.action = action,
                                 !.symbol = payload.symbol, !.price = payload.price]
  IN  IF ~body.json_ok
      THEN [rec |-> Finish(IdleReq, "400 JSON invalido"), ids |-> ids]
      ELSE IF payload.passphrase # APP_PASSPHRASE
      THEN [rec |-> Finish(IdleReq, "401 Passphrase incorreta"), ids |-> ids]
      ELSE IF HasProcessed(ids, alert_id)
      THEN [rec |-> Finish(rec0, "duplicado_ignorado"), ids |-> ids]
      ELSE [ids |-> MarkProcessed(ids, alert_id),
            rec |->
              IF action = Absent THEN Finish(rec, "400 acao desconhecida")
              ELSE IF action = "ignore" THEN Finish(rec, "ok ignorado")
              ELSE IF BINANCE_API_KEY = "" \/ BINANCE_API_SECRET = ""
                   THEN Finish(rec, "ok")
              ELSE IF symbol_b = << >> THEN Finish(rec, "ok")
              ELSE [rec EXCEPT !.pc = "leverage",
                               !.calls = <<Call("leverage", symbol_b, "", 0, FALSE)>>]]

\* webhook marking the alert id only once its action is known
webhook_marklate(body, ids) ==
  LET payload    == body.payload
      alert_id   == PyStr(payload.id)
      action_raw == LowerStrip(payload.action)
      action     == action_map(action_raw)
      symbol_b   == tv_to_binance_symbol(payload.symbol)
      rec0       == [IdleReq EXCEPT !.alert_id = alert_id]
      rec        == [rec0 EXCEPT !.action_raw = action_raw, !.action = action,
                                 !.symbol = payload.symbol, !.price = payload.price]
  IN  IF ~body.json_ok
      THEN [rec |-> Finish(IdleReq, "400 JSON invalido"), ids |-> ids]
      ELSE IF APP_PASSPHRASE = "" \/ payload.passphrase # APP_PASSPHRASE
      THEN [rec |-> Finish(IdleReq, "401 Passphrase incorreta"), ids |-> ids]
      ELSE IF HasProcessed(ids, alert_id)
      THEN [rec |-> Finish(rec0, "duplicado_ignorado"), ids |-> ids]
      ELSE IF action = Absent
      THEN [rec |-> Finish(rec, "400 acao desconhecida"), ids |-> ids]
      ELSE [ids |-> MarkProcessed(ids, alert_id),
            rec |->
              IF action = "ignore" THEN Finish(rec, "ok ignorado")
              ELSE IF BINANCE_API_KEY = "" \/ BINANCE_API_SECRET = ""
                   THEN Finish(rec, "ok")
              ELSE IF symbol_b = << >> THEN Finish(rec, "ok")
              ELSE [rec EXCEPT !.pc = "leverage",
                               !.calls = <<Call("leverage", symbol_b, "", 0, FALSE)>>]]

\* webhook from the body read to its first exchange call (lines 214-284).
\* Returns the coroutine's state and the processed set it leaves.
webhook(body, ids) ==
  LET payload    == body.payload
      alert_id   == PyStr(payload.id)
      action_raw == LowerStrip(payload.action)
      action     == action_map(action_raw)
      symbol_b   == tv_to_binance_symbol(payload.symbol)
      rec0       == [IdleReq EXCEPT !.alert_id = alert_id]
      rec        == [rec0 EXCEPT !.action_raw = action_raw, !.action = action,
                                 !.symbol = payload.symbol, !.price = payload.price]
  IN  IF ~body.json_ok
      THEN [rec |-> Finish(IdleReq, "400 JSON invalido"), ids |-> ids]
      ELSE IF APP_PASSPHRASE = "" \/ payload.passphrase # APP_PASSPHRASE
      THEN [rec |-> Finish(IdleReq, "401 Passphrase incorreta"), ids |-> ids]
      ELSE IF HasProcessed(ids, alert_id)
      THEN [rec |-> Finish(rec0, "duplicado_ignorado"), ids |-> ids]
      ELSE [ids |-> MarkProcessed(ids, alert_id),
            rec |->
              IF action = Absent THEN Finish(rec, "400 acao desconhecida")
              ELSE IF action = "ignore" THEN Finish(rec, "ok ignorado")
              ELSE IF BINANCE_API_KEY = "" \/ BINANCE_API_SECRET = ""
                   THEN Finish(rec, "ok")
              ELSE IF symbol_b = << >> THEN Finish(rec, "ok")
              ELSE [rec EXCEPT !.pc = "leverage",
                               !.calls = <<Call("leverage", symbol_b, "", 0, FALSE)>>]]

\* The same for an exception thrown while the answer of the position query
\* is read.
Unparsed(rec) == Finish([rec EXCEPT !.calls = SetLast(@, "unparsed", 0)], "500")

\* webhook lines 283-301 once the set-leverage call has returned or thrown:
\* the exception is caught and printed, the quantity is sized, the action
\* routed.
AfterSetLeverage_abort(rec, outcome) ==
  IF outcome = "raised" THEN Unhandled(rec)
  ELSE Route([rec EXCEPT !.calls = SetLast(@, outcome, 0),
                         !.qty = _calc_qty_from_usdt(PriceOrZero(rec.price),
                                                     ORDER_USDT, LEVERAGE, MIN_QTY)])

AfterSetLeverage(rec, outcome) ==
  Route([rec EXCEPT !.calls = SetLast(@, outcome, 0),
                    !.qty = _calc_qty_from_usdt(PriceOrZero(rec.price),
                                                ORDER_USDT, LEVERAGE, MIN_QTY)])

\* handle_signal deciding the second leg of a Close on the amount the first
\* leg fetched
AfterGetPosition_stale(rec, outcome, pos_qty) ==
  LET rec1   == [rec EXCEPT !.calls = SetLast(@, outcome, pos_qty)]
      cached == IF rec.leg = 2 THEN rec.calls[2].val ELSE pos_qty
      d      == handle_signal(rec.verb, cached, rec.qty, rec.allow_short)
  IN  IF d.kind = "order"
      THEN [rec1 EXCEPT !.pc = "order",
                        !.calls = Append(@, Call("order", tv_to_binance_symbol(rec.symbol),
                                                 d.side, d.qty, d.reduce_only))]
      ELSE AfterRouter(rec1, SkippedResult(d.reason))

\* handle_signal once its position query has returned pos_qty (lines 169-205)
AfterGetPosition(rec, outcome, pos_qty) ==
  LET rec1 == [rec EXCEPT !.calls = SetLast(@, outcome, pos_qty)]
      d    == handle_signal(rec.verb, pos_qty, rec.qty, rec.allow_short)
  IN  IF d.kind = "order"
      THEN [rec1 EXCEPT !.pc = "order",
                        !.calls = Append(@, Call("order", tv_to_binance_symbol(rec.symbol),
                                                 d.side, d.qty, d.reduce_only))]
      ELSE AfterRouter(rec1, SkippedResult(d.reason))

\* handle_signal once the order call has returned the exchange's answer
AfterOrder(rec, outcome) ==
  AfterRouter([rec EXCEPT !.calls = SetLast(@, outcome, 0)], OrderResult(outcome))

\* webhook lines 304-317: the income query's outcome is only printed
AfterIncome(rec, outcome) ==
  Finish([rec EXCEPT !.calls = SetLast(@, outcome, 0)], "ok")

\* ------------------------------------------------------------------ init
Init ==
  /\ APP_PASSPHRASE \in {"", "pw"}
  /\ BINANCE_API_KEY \in {"", "key"}
  /\ BINANCE_API_SECRET \in {"", "secret"}
  /\ _ids_processados = {}
  /\ position \in (0 - MaxPos)..MaxPos
  /\ req = [r \in Reqs |-> IdleReq]

\* --------------------------------------------------------------- actions
\* A coroutine that has returned hands its response over before the event
\* loop resumes another handler.
NoneDone == \A q \in Reqs : req[q].pc # "done"
\* A delivery arrives and runs up to its first exchange call.
Webhook(r) ==
  /\ NoneDone
  /\ req[r].pc = "idle"
  /\ \A q \in Reqs : q < r => req[q].pc # "idle"
  /\ \E body \in Bodies :
       LET out == webhook(body, _ids_processados)
       IN  /\ req' = [req EXCEPT ![r] = out.rec]
           /\ _ids_processados' = out.ids
  /\ UNCHANGED <<APP_PASSPHRASE, BINANCE_API_KEY, BINANCE_API_SECRET, position>>

SetLeverageReturn(r) ==
  /\ NoneDone
  /\ req[r].pc = "leverage"
  /\ \E outcome \in {"ok", "raised"} :
       req' = [req EXCEPT ![r] = AfterSetLeverage(req[r], outcome)]
  /\ UNCHANGED <<APP_PASSPHRASE, BINANCE_API_KEY, BINANCE_API_SECRET,
                 _ids_processados, position>>

\* _binance_futures_get_position_qty returns the amount of the symbol's
\* entry, 0.0 when the amount does not parse or no entry matches, and
\* throws when the HTTP call, r.json() or it.get does.
GetPositionReturn(r) ==
  /\ NoneDone
  /\ req[r].pc = "getpos"
  /\ \E answer \in PositionAnswers(position) :
       LET out == _binance_futures_get_position_qty(
                    answer, req[r].calls[Len(req[r].calls)].symbol)
       IN  req' = [req EXCEPT ![r] =
                     CASE out.res = "raised"   -> Unhandled(req[r])
                       [] out.res = "unparsed" -> Unparsed(req[r])
                       [] OTHER -> AfterGetPosition(req[r], out.res, out.val)]
  /\ UNCHANGED <<APP_PASSPHRASE, BINANCE_API_KEY, BINANCE_API_SECRET,
                 _ids_processados, position>>

OrderReturn(r) ==
  /\ NoneDone
  /\ req[r].pc = "order"
  /\ LET c == req[r].calls[Len(req[r].calls)]
     IN  \E outcome \in {"ok", "rejected", "raised"} :
           /\ outcome = "ok" => ExchangeAccepts(position, c.side, c.qty, c.reduce_only)
           /\ position' = IF outcome = "ok"
                          THEN ExchangeFill(position, c.side, c.qty, c.reduce_only)
                          ELSE position
           /\ req' = [req EXCEPT ![r] =
                        IF outcome = "raised" THEN Unhandled(req[r])
                        ELSE AfterOrder(req[r], outcome)]
  /\ UNCHANGED <<APP_PASSPHRASE, BINANCE_API_KEY, BINANCE_API_SECRET,
                 _ids_processados>>

IncomeReturn(r) ==
  /\ NoneDone
  /\ req[r].pc = "income"
  /\ \E outcome \in {"ok", "raised"} :
       req' = [req EXCEPT ![r] = AfterIncome(req[r], outcome)]
  /\ UNCHANGED <<APP_PASSPHRASE, BINANCE_API_KEY, BINANCE_API_SECRET,
                 _ids_processados, position>>

\* The response has been sent and the coroutine is gone.
Respond(r) ==
  /\ req[r].pc = "done"
  /\ req' = [req EXCEPT ![r] = IdleReq]
  /\ UNCHANGED <<APP_PASSPHRASE, BINANCE_API_KEY, BINANCE_API_SECRET,
                 _ids_processados, position>>

Next ==
  \/ \E r \in Reqs : Webhook(r)
  \/ \E r \in Reqs : SetLeverageReturn(r)
  \/ \E r \in Reqs : GetPositionReturn(r)
  \/ \E r \in Reqs : OrderReturn(r)
  \/ \E r \in Reqs : IncomeReturn(r)
  \/ \E r \in Reqs : Respond(r)

Spec == Init /\ [][Next]_vars

\* One coroutine at a time: no two alerts are ever in flight together.
NextSerial ==
  \/ Webhook(1)
  \/ SetLeverageReturn(1)
  \/ GetPositionReturn(1)
  \/ OrderReturn(1)
  \/ IncomeReturn(1)
  \/ Respond(1)

SpecSerial == Init /\ [][NextSerial]_vars

\* handle_signal called directly, with any verb, by coroutine 1 (lines
\* 149-167); the webhook serves deliveries once that call has returned.
RouterVerbs == {"BUY", "SELL", "SHORT", "COVER", "HOLD", ""}

DirectCall(action, qty, allow_short) ==
  StartRouter([IdleReq EXCEPT !.symbol = TV_BTCUSD, !.qty = qty], 1, action, allow_short)

InitRouter ==
  /\ APP_PASSPHRASE = "pw"
  /\ BINANCE_API_KEY = "key"
  /\ BINANCE_API_SECRET = "secret"
  /\ _ids_processados = {}
  /\ position \in (0 - MaxPos)..MaxPos
  /\ \E action \in RouterVerbs, qty \in {1, 2}, allow_short \in BOOLEAN :
       req = [r \in Reqs |-> IF r = 1 THEN DirectCall(action, qty, allow_short)
                                      ELSE IdleReq]

SpecRouter == InitRouter /\ [][NextSerial]_vars

\* Alerts that never ask for a short, on an account that starts flat or long.
WebhookNoShort(r) == Webhook(r) /\ req'[r].action # "short"

InitNoShort == Init /\ position >= 0

NextNoShort ==
  \/ \E r \in Reqs : WebhookNoShort(r)
  \/ \E r \in Reqs : SetLeverageReturn(r)
  \/ \E r \in Reqs : GetPositionReturn(r)
  \/ \E r \in Reqs : OrderReturn(r)
  \/ \E r \in Reqs : IncomeReturn(r)
  \/ \E r \in Reqs : Respond(r)

SpecNoShort == InitNoShort /\ [][NextNoShort]_vars

TypeOK ==
  /\ _ids_processados \subseteq {"a1", "None"}
  /\ position \in (0 - MaxPos)..MaxPos
  /\ \A r \in Reqs :
       req[r].pc \in {"idle", "leverage", "getpos", "order", "income", "done"}

\* ------------------------------------------------------------ properties
Rejected == {"400 JSON invalido", "401 Passphrase incorreta"}
InFlight == {"leverage", "getpos", "order", "income"}

\* the request passed the dedup guard (it was not rejected and not a duplicate)
Passed(rec) ==
  rec.pc # "idle" /\ rec.resp \notin Rejected /\ rec.resp # "duplicado_ignorado"

OrdersOf(rec) == SelectSeq(rec.calls, LAMBDA c : c.op = "order")
PosIdx(rec)   == {i \in 1..Len(rec.calls) : rec.calls[i].op = "position"}
Returned(c)   == c.res \in {"ok", "malformed", "rejected"}

\* C1: a passphrase-valid delivery whose alert id is not yet processed
\* proceeds and leaves the id in the set; one whose id is already processed
\* is answered "duplicado_ignorado" at once with no exchange call; the
\* processed set never loses an id.
C1_FirstProceedsLaterSkipped ==
  [][ /\ _ids_processados \subseteq _ids_processados'
      /\ \A r \in Reqs :
           (req[r].pc = "idle" /\ req'[r].pc # "idle" /\ req'[r].resp \notin Rejected)
           => IF req'[r].alert_id \in _ids_processados
              THEN /\ req'[r].pc = "done"
                   /\ req'[r].resp = "duplicado_ignorado"
                   /\ req'[r].calls = << >>
                   /\ _ids_processados' = _ids_processados
              ELSE /\ req'[r].resp # "duplicado_ignorado"
                   /\ req'[r].alert_id \in _ids_processados'
      /\ \A r \in Reqs :
           req'[r].resp = "duplicado_ignorado" => req'[r].calls = << >> ]_vars

\* a delivery is skipped as a duplicate after the first delivery of its id
\* has run to its end and is gone
C1_Witness ==
  \E r \in Reqs :
    /\ req[r].pc = "done" /\ req[r].resp = "duplicado_ignorado"
    /\ req[r].alert_id \in _ids_processados
    /\ req[r].calls = << >>
    /\ BINANCE_API_KEY # "" /\ BINANCE_API_SECRET # ""
    /\ \A q \in Reqs \ {r} : req[q].pc = "idle"

\* C2: check and insert are one step: no two live requests with the same
\* alert id have both passed the guard, and a request that has passed it
\* has its id in the set in every state.
C2_AtomicCheckInsert ==
  /\ \A r \in Reqs : Passed(req[r]) => req[r].alert_id \in _ids_processados
  /\ \A r, q \in Reqs :
       (r # q /\ Passed(req[r]) /\ Passed(req[q]))
       => req[r].alert_id # req[q].alert_id

\* a delivery arrived while another with the same id was suspended in an
\* exchange call, and was skipped
C2_Witness ==
  \E r, q \in Reqs :
    /\ q # r
    /\ req[q].pc \in InFlight
    /\ req[r].resp = "duplicado_ignorado"
    /\ req[r].alert_id = req[q].alert_id

\* both router invocations of a Close have returned
CloseComplete(rec) == rec.action = "close" /\ Len(rec.results) = 2

FirstLegFailed(rec) ==
  /\ rec.action = "close"
  /\ \E i \in 1..Len(rec.calls) :
       /\ rec.calls[i].op \in {"position", "order"}
       /\ rec.calls[i].res \in {"raised", "rejected"}
       /\ \A j \in PosIdx(rec) : j <= i => \A k \in PosIdx(rec) : j <= k

\* C4 as claimed: when the first leg of a Close has failed, the second leg
\* (the COVER invocation, starting with its position query) is still run.
C4_SecondLegStillAttempted ==
  \A r \in Reqs :
    FirstLegFailed(req[r]) => Cardinality(PosIdx(req[r])) = 2

\* C5 as claimed: a failed position query or order never leaves the router:
\* the request is not answered with a server error, and the router has
\* returned a result for the failed call.
C5_FailuresNeverThrow ==
  \A r \in Reqs :
    (\E i \in 1..Len(req[r].calls) :
        /\ req[r].calls[i].op \in {"position", "order"}
        /\ req[r].calls[i].res \in {"raised", "rejected"})
    => /\ req[r].resp # "500"
       /\ req[r].results # << >>

\* the position query of the request's single router invocation has
\* returned pos_qty (requests routed as one invocation: buy, sell, short)
Fetched(rec) ==
  /\ Len(rec.calls) >= 2
  /\ rec.calls[2].op = "position"
  /\ Returned(rec.calls[2])

\* C6: a sell that fetched a position > 0 has placed exactly one order, a
\* reduce-only SELL whose quantity is the smaller of the sized quantity and
\* the fetched position, hence never more than the position.
C6_SellClosesLongClamped ==
  \A r \in Reqs :
    (req[r].action = "sell" /\ Fetched(req[r]) /\ req[r].calls[2].val > 0)
    => LET o   == OrdersOf(req[r])
           pos == req[r].calls[2].val
       IN  /\ Len(o) = 1
           /\ o[1].side = "SELL" /\ o[1].reduce_only
           /\ o[1].qty <= pos /\ o[1].qty <= req[r].qty
           /\ o[1].qty = pos \/ o[1].qty = req[r].qty

\* a sell sized above the fetched long has placed the clamped order
C6_Witness ==
  \E r \in Reqs :
    /\ req[r].action = "sell" /\ Fetched(req[r])
    /\ req[r].calls[2].val > 0 /\ req[r].calls[2].val < req[r].qty
    /\ Len(OrdersOf(req[r])) = 1
    /\ OrdersOf(req[r])[1].qty = req[r].calls[2].val

\* C7: a sell (routed with allow_short = false) that fetched a position
\* <= 0 places no order and the router returns a skipped result with the
\* reason "no long to close; short disabled".
C7_SellWithoutLongSkips ==
  \A r \in Reqs :
    (req[r].action = "sell" /\ Fetched(req[r]) /\ req[r].calls[2].val <= 0)
    => /\ ~req[r].allow_short
       /\ OrdersOf(req[r]) = << >>
       /\ Len(req[r].calls) = 2
       /\ req[r].results = <<SkippedResult(<<"no long to close; short disabled">>)>>

\* a sell against a short position has been skipped
C7_Witness ==
  \E r \in Reqs :
    /\ req[r].action = "sell" /\ Fetched(req[r]) /\ req[r].calls[2].val < 0
    /\ req[r].pc = "done" /\ req[r].resp = "ok"
    /\ req[r].results # << >> /\ req[r].results[1].skipped

\* the index of the COVER invocation's position query in a Close, 0 if none
CoverIdx(rec) ==
  IF rec.action = "close" /\ Cardinality(PosIdx(rec)) = 2
  THEN CHOOSE i \in PosIdx(rec) : \A j \in PosIdx(rec) : j <= i
  ELSE 0

\* C8: a Cover that fetched a position >= 0 places no order and returns
\* skipped; one that fetched a position < 0 places exactly one order, a
\* reduce-only BUY of the smaller of the sized quantity and |position|.
C8_CoverClosesShortClamped ==
  \A r \in Reqs :
    LET c == req[r].calls
        i == CoverIdx(req[r])
    IN  (i > 0 /\ Returned(c[i]))
        => IF c[i].val >= 0
           THEN /\ \A j \in i..Len(c) : c[j].op # "order"
                /\ req[r].results[2] = SkippedResult(<<"no short to close">>)
           ELSE /\ Len(c) > i
                /\ c[i+1].op = "order" /\ c[i+1].side = "BUY" /\ c[i+1].reduce_only
                /\ c[i+1].qty <= 0 - c[i].val /\ c[i+1].qty <= req[r].qty
                /\ c[i+1].qty = 0 - c[i].val \/ c[i+1].qty = req[r].qty
                /\ \A j \in (i+2)..Len(c) : c[j].op # "order"

\* a Cover sized above the fetched short has placed the clamped order
C8_Witness ==
  \E r \in Reqs :
    LET c == req[r].calls
        i == CoverIdx(req[r])
    IN  /\ i > 0 /\ Returned(c[i])
        /\ c[i].val < 0 /\ 0 - c[i].val < req[r].qty
        /\ Len(c) > i /\ c[i+1].op = "order" /\ c[i+1].qty = 0 - c[i].val

\* C9: a buy or long, whatever position it fetched, has placed exactly one
\* order: a BUY, not reduce-only, of the sizer's quantity for the alert's
\* price.
C9_BuyOpensLongUnclamped ==
  \A r \in Reqs :
    (req[r].action_raw \in {"buy", "long"} /\ Fetched(req[r]))
    => LET o == OrdersOf(req[r])
       IN  /\ Len(o) = 1
           /\ o[1].side = "BUY" /\ ~o[1].reduce_only
           /\ o[1].qty = _calc_qty_from_usdt(PriceOrZero(req[r].price),
                                             ORDER_USDT, LEVERAGE, MIN_QTY)

\* a long sized above a fetched short has placed the full order
C9_Witness ==
  \E r \in Reqs :
    /\ req[r].action_raw = "long" /\ Fetched(req[r])
    /\ req[r].calls[2].val < 0 /\ 0 - req[r].calls[2].val < req[r].qty
    /\ Len(OrdersOf(req[r])) = 1
    /\ OrdersOf(req[r])[1].qty = req[r].qty

\* a request whose set-leverage call threw
LeverageFailed(rec) ==
  rec.calls # << >> /\ rec.calls[1].op = "leverage" /\ rec.calls[1].res = "raised"

\* after a failed set-leverage the position query has been issued and, once
\* it has returned, the order the action calls for has been placed
ProceedsAfterLeverageFailure(rec) ==
  LeverageFailed(rec)
  => /\ Len(rec.calls) >= 2 /\ rec.calls[2].op = "position"
     /\ Fetched(rec)
        => /\ rec.action \in {"buy", "short"} => Len(OrdersOf(rec)) = 1
           /\ rec.action \in {"sell", "close"}
              => (rec.calls[2].val > 0 <=> (Len(rec.calls) >= 3 /\ rec.calls[3].op = "order"))

\* C10: whether the set-leverage call returns or throws, the request goes
\* on the same way: the quantity is sized and the router is entered for the
\* mapped action, its position query issued; after a failed set-leverage
\* the position query and the order of the action are still attempted.
C10_LeverageFailureDoesNotBlock ==
  [][ \A r \in Reqs :
        /\ (req[r].pc = "leverage" /\ req'[r].pc # "leverage")
           => req'[r] =
                [req[r] EXCEPT
                   !.pc = "getpos", !.leg = 1,
                   !.qty = _calc_qty_from_usdt(PriceOrZero(req[r].price),
                                               ORDER_USDT, LEVERAGE, MIN_QTY),
                   !.verb = CASE req[r].action = "buy"   -> "BUY"
                              [] req[r].action = "short" -> "SHORT"
                              [] OTHER                   -> "SELL",
                   !.allow_short = (req[r].action = "short"),
                   !.calls = <<[req[r].calls[1] EXCEPT !.res = req'[r].calls[1].res],
                               Call("position", req[r].calls[1].symbol, "", 0, FALSE)>>]
        /\ ProceedsAfterLeverageFailure(req'[r])
    ]_vars

\* an order has been filled for a request whose set-leverage call threw
C10_Witness ==
  \E r \in Reqs :
    /\ req[r].pc = "done" /\ req[r].resp = "ok"
    /\ LeverageFailed(req[r])
    /\ \E i \in 1..Len(req[r].calls) :
         req[r].calls[i].op = "order" /\ req[r].calls[i].res = "ok"

Executable == {"buy", "sell", "short", "close"}

\* C11: while the API key or the API secret is empty no exchange call is
\* ever issued, and a request that passed the guard with an executable
\* action has completed with the success response.
C11_NoCallWithoutCredentials ==
  (BINANCE_API_KEY = "" \/ BINANCE_API_SECRET = "")
  => \A r \in Reqs :
       /\ req[r].calls = << >>
       /\ req[r].pc \in {"idle", "done"}
       /\ (Passed(req[r]) /\ req[r].action \in Executable) => req[r].resp = "ok"

\* a close has been answered ok without any call: the key is set, the
\* secret is not
C11_Witness ==
  /\ BINANCE_API_KEY # "" /\ BINANCE_API_SECRET = ""
  /\ \E r \in Reqs :
       /\ req[r].pc = "done" /\ req[r].resp = "ok"
       /\ req[r].action = "close" /\ req[r].symbol = TV_BTCUSD
       /\ req[r].calls = << >>

\* C12: a request whose symbol is empty, or blank after the colon, issues no
\* exchange call whatever its action, and completes with the success
\* response; no exchange call ever carries an empty symbol.
C12_EmptySymbolNoCalls ==
  \A r \in Reqs :
    /\ \A i \in 1..Len(req[r].calls) : req[r].calls[i].symbol # << >>
    /\ (req[r].pc # "idle" /\ req[r].symbol \in {TV_EMPTY, TV_BLANK})
       => /\ req[r].calls = << >>
          /\ req[r].pc = "done"
          /\ (Passed(req[r]) /\ req[r].action \in Executable) => req[r].resp = "ok"

\* a buy for a blank symbol has been answered without any call although the
\* credentials are set
C12_Witness ==
  /\ BINANCE_API_KEY # "" /\ BINANCE_API_SECRET # ""
  /\ \E r \in Reqs :
       /\ req[r].pc = "done" /\ req[r].resp = "ok"
       /\ req[r].action = "buy" /\ req[r].symbol = TV_BLANK
       /\ tv_to_binance_symbol(req[r].symbol) = << >>
       /\ req[r].calls = << >>

KnownRawActions ==
  {"buy", "sell", "close", "long", "short", "exit_long", "exit_short", "hb", "test"}

\* the request is a direct router call whose position query has returned
DirectReturned(rec) ==
  /\ rec.alert_id = "" /\ rec.calls # << >>
  /\ rec.calls[1].op = "position" /\ Returned(rec.calls[1])

\* C13: the router, called with a verb that is none of BUY, SELL, SHORT,
\* COVER, places no order and returns skipped with the reason "unknown
\* action" and the verb; a delivery that passed the guard with a raw action
\* outside the map is answered 400 with no exchange call, and one with hb
\* or test is answered as ignored with no exchange call.
C13_UnknownActionNeverOrders ==
  \A r \in Reqs :
    /\ (DirectReturned(req[r]) /\ req[r].verb \notin {"BUY", "SELL", "SHORT", "COVER"})
       => /\ Len(req[r].calls) = 1
          /\ req[r].results = <<SkippedResult(<<"unknown action", req[r].verb>>)>>
    /\ (req[r].alert_id # "" /\ Passed(req[r]) /\ req[r].action_raw \notin KnownRawActions)
       => /\ req[r].pc = "done"
          /\ req[r].resp = "400 acao desconhecida"
          /\ req[r].calls = << >>
    /\ (req[r].alert_id # "" /\ Passed(req[r]) /\ req[r].action_raw \in {"hb", "test"})
       => /\ req[r].pc = "done"
          /\ req[r].resp = "ok ignorado"
          /\ req[r].calls = << >>

\* the router has skipped the verb HOLD after its position query
C13_Witness ==
  \E r \in Reqs :
    /\ DirectReturned(req[r]) /\ req[r].verb = "HOLD"
    /\ req[r].pc = "done"
    /\ req[r].results # << >> /\ req[r].results[1].skipped
    /\ req[r].results[1].reason[2] = "HOLD"

\* C14 as claimed: no answer to the position query makes it throw: every
\* query that was answered has returned an amount, 0.0 for an answer that
\* is malformed or cannot be parsed, and the request was not failed.
C14_PositionQueryFailsOpen ==
  \A r \in Reqs :
    \A i \in PosIdx(req[r]) :
      /\ req[r].calls[i].res # "unparsed"
      /\ req[r].calls[i].res = "malformed" => req[r].calls[i].val = 0

\* C15 as claimed: with no other alert in flight, a Close whose exchange
\* calls all succeeded leaves the net position at zero.
C15_CloseFlattens ==
  \A r \in Reqs :
    ( /\ req[r].action = "close" /\ req[r].pc = "done" /\ req[r].resp = "ok"
      /\ req[r].calls # << >>
      /\ \A i \in 1..Len(req[r].calls) : req[r].calls[i].res = "ok" )
    => position = 0

\* C16: every router invocation issues its own position query and decides
\* only once it has returned: a request has issued as many position queries
\* as it has entered the router, an invocation that waits has its query
\* pending, and every order directly follows a returned position query for
\* the same symbol whose amount is the one the order was decided on.
C16_PositionNeverCached ==
  \A r \in Reqs :
    LET c == req[r].calls
    IN  /\ Cardinality(PosIdx(req[r])) = req[r].leg
        /\ Len(req[r].results) <= req[r].leg
        /\ req[r].pc = "getpos"
           => c[Len(c)].op = "position" /\ c[Len(c)].res = "pending"
        /\ \A i \in 1..Len(c) :
             c[i].op = "order"
             => /\ i > 1 /\ c[i-1].op = "position"
                /\ c[i-1].res \in {"ok", "malformed"}
                /\ c[i-1].symbol = c[i].symbol
                /\ (c[i].reduce_only /\ c[i].side = "SELL")
                   => c[i-1].val > 0 /\ c[i].qty <= c[i-1].val
                /\ (c[i].reduce_only /\ c[i].side = "BUY")
                   => c[i-1].val < 0 /\ c[i].qty <= 0 - c[i-1].val

\* the second leg of a Close has read the position its first leg left
C16_Witness ==
  \E r \in Reqs :
    LET c == req[r].calls
    IN  /\ req[r].action = "close" /\ Len(c) >= 4
        /\ c[2].op = "position" /\ c[2].res = "ok" /\ c[2].val > 0
        /\ c[3].op = "order" /\ c[3].res = "ok"
        /\ c[4].op = "position" /\ c[4].res = "ok" /\ c[4].val = c[2].val - c[3].qty
        /\ c[4].val = position

\* No request is being served.  What webhook does with a delivery depends
\* only on the configuration and the processed set, and every processed set
\* the program reaches is also reached with all coroutines idle.
Quiescent == \A r \in Reqs : req[r].pc = "idle"

PassphraseValid(body) ==
  body.json_ok /\ APP_PASSPHRASE # "" /\ body.payload.passphrase = APP_PASSPHRASE

\* every passphrase-valid delivery without an id would now be skipped
IdlessSuppressed ==
  \A body \in Bodies :
    (PassphraseValid(body) /\ body.payload.id = Absent)
    => LET out == webhook(body, _ids_processados)
       IN  /\ out.rec.pc = "done" /\ out.rec.resp = "duplicado_ignorado"
           /\ out.rec.calls = << >>
           /\ out.ids = _ids_processados

\* C17: a delivery without an id is keyed on the string "None": the first
\* one that passes the guard puts "None" into the processed set, and from
\* then on every delivery without an id, whatever its action, symbol or
\* price, is answered as a duplicate.
C17_IdlessAlertsCollide ==
  [][ /\ \A r \in Reqs :
           (req[r].pc = "idle" /\ req'[r].pc # "idle" /\ Passed(req'[r]))
           => (req'[r].alert_id = "None" => "None" \in _ids_processados')
      /\ \A r \in Reqs :
           (req[r].pc = "idle" /\ req'[r].pc # "idle"
            /\ req'[r].resp \notin Rejected /\ req'[r].alert_id = "None"
            /\ "None" \in _ids_processados)
           => req'[r].resp = "duplicado_ignorado" /\ req'[r].calls = << >>
      /\ "None" \in _ids_processados => "None" \in _ids_processados'
    ]_vars
  /\ []((Quiescent /\ "None" \in _ids_processados) => IdlessSuppressed)

\* a delivery without an id has been skipped while the first one without an
\* id is still executing
C17_Witness ==
  \E r, q \in Reqs :
    /\ r # q
    /\ req[r].pc = "done" /\ req[r].resp = "duplicado_ignorado"
    /\ req[r].alert_id = "None"
    /\ req[q].pc \in InFlight /\ req[q].alert_id = "None"

\* C18: when no alert asks for a short and the account starts flat or long,
\* the net position is never negative, whatever the interleaving: every
\* SELL placed is reduce-only.
C18_NeverShort ==
  /\ position >= 0
  /\ \A r \in Reqs :
       \A i \in 1..Len(req[r].calls) :
         (req[r].calls[i].op = "order" /\ req[r].calls[i].side = "SELL")
         => req[r].calls[i].reduce_only

\* two alerts decided on the same read of a long; the SELL of one was
\* filled and closed it, the SELL of the other is still on its way
C18_Witness ==
  \E r, q \in Reqs :
    /\ r # q
    /\ req[r].alert_id # req[q].alert_id
    /\ Len(req[r].calls) >= 3 /\ Len(req[q].calls) >= 3
    /\ req[r].calls[2].val > 0 /\ req[q].calls[2].val = req[r].calls[2].val
    /\ req[r].calls[3].op = "order" /\ req[r].calls[3].res = "ok"
    /\ req[q].calls[3].op = "order" /\ req[q].calls[3].res = "pending"
    /\ req[q].calls[3].side = "SELL"
    /\ position = 0

\* a retry of any id in the processed set would be skipped
RetrySkipped ==
  \A body \in Bodies :
    (PassphraseValid(body) /\ PyStr(body.payload.id) \in _ids_processados)
    => LET out == webhook(body, _ids_processados)
       IN  /\ out.rec.resp = "duplicado_ignorado"
           /\ out.rec.calls = << >>

\* C19: a passphrase-valid delivery with a new id has its id in the
\* processed set as soon as it has passed the guard, before its action is
\* validated and before any exchange call, whatever answer it gets; the id
\* stays there, so a retry with the same id is skipped.
C19_IdConsumedWhateverOutcome ==
  [][ /\ \A r \in Reqs :
           (req[r].pc = "idle" /\ req'[r].pc # "idle"
            /\ req'[r].resp \notin Rejected /\ req'[r].alert_id \notin _ids_processados)
           => /\ req'[r].alert_id \in _ids_processados'
              /\ Len(req'[r].calls) <= 1
      /\ \A r \in Reqs :
           (req'[r].pc # "idle" /\ req'[r].resp \notin Rejected)
           => req'[r].alert_id \in _ids_processados'
      /\ _ids_processados \subseteq _ids_processados'
    ]_vars
  /\ [](Quiescent => RetrySkipped)

\* a request that failed on an exchange call has used up its id
C19_Witness ==
  \E r \in Reqs :
    /\ req[r].pc = "done" /\ req[r].resp = "500"
    /\ req[r].alert_id \in _ids_processados

\* every delivery with a wrong passphrase, and every delivery while
\* PASS_PHRASE is unset, would be answered 401 and leave the set alone
RejectedHasNoEffect ==
  \A body \in Bodies :
    (body.json_ok /\ (APP_PASSPHRASE = "" \/ body.payload.passphrase # APP_PASSPHRASE))
    => LET out == webhook(body, _ids_processados)
       IN  /\ out.rec.pc = "done" /\ out.rec.resp = "401 Passphrase incorreta"
           /\ out.rec.calls = << >>
           /\ out.ids = _ids_processados

\* C20: a delivery whose passphrase is not the configured one, or any
\* delivery while the configured one is empty, is answered 401 and changes
\* nothing: the processed set and the exchange are as before and the
\* request has issued no exchange call.
C20_RejectedNoEffect ==
  [][ /\ \A r \in Reqs :
           (req[r].pc = "idle" /\ req'[r].resp = "401 Passphrase incorreta")
           => /\ req'[r].pc = "done"
              /\ req'[r].calls = << >>
              /\ req'[r].alert_id = ""
              /\ _ids_processados' = _ids_processados
              /\ position' = position
      /\ APP_PASSPHRASE = ""
         => /\ _ids_processados' = {}
            /\ \A r \in Reqs : req'[r].calls = << >> /\ req'[r].pc \in {"idle", "done"}
    ]_vars
  /\ [](Quiescent => RejectedHasNoEffect)

\* a delivery has been rejected while PASS_PHRASE is unset and the exchange
\* credentials are set
C20_Witness ==
  /\ APP_PASSPHRASE = ""
  /\ BINANCE_API_KEY # "" /\ BINANCE_API_SECRET # ""
  /\ _ids_processados = {}
  /\ \E r \in Reqs :
       /\ req[r].pc = "done" /\ req[r].resp = "401 Passphrase incorreta"
       /\ req[r].calls = << >>
====
